---- MODULE Spec2Model ----
(***************************************************************************)
(* Model of the two scripts of release_notes_generator:                    *)
(*   - extract_webdev_merges.py, the Merge Extractor (SpecExtract);         *)
(*   - release_notes.py, the Release Note Builder (Spec).                   *)
(*                                                                         *)
(* Text is a sequence of tokens.  A token is one character, except for a   *)
(* few words that no pattern of the code can match a part of: the literal  *)
(* "Merge branch " (MB, and its lower-case spelling mb), the branch-type    *)
(* words in front of the first '/', and the two marker words of the        *)
(* Builder's skip test.  NL is the line terminator.                        *)
(***************************************************************************)
EXTENDS Integers, Sequences, FiniteSets, TLC

VARIABLES
    \* ---- release_notes.py
    pc,               \* position of the Builder in its module-level code
    JIRA_URL,         \* os.getenv("JIRA_URL"): "None" or a value
    JIRA_API_TOKEN,   \* os.getenv("JIRA_API_TOKEN"): "None" or a value
    RELEASE_VERSION, DEVELOP_VERSION, ISSUE_PREFIX,
    prompts,          \* the input() prompts shown so far, in order
    merges_read,      \* TRUE once merges.txt has been opened
    merge_lines,      \* f.read().splitlines()
    idx,              \* number of merge_lines the parse loop has consumed
    tasks,            \* dict base_key -> branch_type, as its items in insertion order
    fate,             \* per consumed line: where the loop body left it (history)
    tracker_calls,    \* number of requests sent to the tracker
    issue_data,       \* dict key -> "Issue" | "None", as a function
    groups,           \* make_group(tasks): its items in insertion order
    output_lines,
    prior_notes,      \* release_notes.md as the run found it (history)
    release_notes_md, \* release_notes.md on disk: "absent" or its lines
    writes,           \* number of times release_notes.md was opened for writing
    exit_code,        \* "running", or the process's exit status
    \* ---- extract_webdev_merges.py
    xpc,              \* position of the Extractor in main()
    xargs,            \* the parsed command line of the current run
    xfiles,           \* the files the Extractor reads and writes: name -> text
    xgit,             \* what `git log --merges --oneline` prints in this repository
    xlines,           \* main()'s local `lines`
    xsource,          \* the lines handed to extract_lines in this run (history)
    xprev             \* the last run that wrote its output: arguments and lines (history)

bvars == <<pc, JIRA_URL, JIRA_API_TOKEN, RELEASE_VERSION, DEVELOP_VERSION,
           ISSUE_PREFIX, prompts, merges_read, merge_lines, idx, tasks, fate,
           tracker_calls, issue_data, groups, output_lines, prior_notes,
           release_notes_md, writes, exit_code>>
xvars == <<xpc, xargs, xfiles, xgit, xlines, xsource, xprev>>
vars == <<bvars, xvars>>

----------------------------------------------------------------------------
(* Bounds of the model. *)

\* Most lines in merges.txt (Builder).
MaxLines == 2
\* Most lines in the Extractor's input (git log output or the --from-file file).
MaxLogLines == 2

----------------------------------------------------------------------------
(* Text. *)

MB == "Merge branch "
mb == "merge branch "
NL == "\n"
SP == " "
\* The backquote character.
BQ == "<backquote>"

Range(s) == {s[i] : i \in DOMAIN s}

\* str.lower(), token by token.
LowerTok(c) ==
    CASE c = MB -> mb
      [] c = "W" -> "w"
      [] c = "D" -> "d"
      [] c = "P" -> "p"
      [] c = "Q" -> "q"
      [] c = "Feature" -> "feature"
      [] c = "Hotfix" -> "hotfix"
      [] OTHER -> c

Lower(s) == [i \in DOMAIN s |-> LowerTok(s[i])]

\* s[a..b], empty when a > b.
Slice(s, a, b) == IF a > b THEN <<>> ELSE SubSeq(s, a, b)

\* str.startswith
StartsWith(s, p) == Len(p) <= Len(s) /\ SubSeq(s, 1, Len(p)) = p

\* The positions at which p occurs in s.
Occurrences(p, s) ==
    {i \in 1..(Len(s) - Len(p) + 1) : Slice(s, i, i + Len(p) - 1) = p}

\* `p in s` of two strings.
Contains(p, s) == Len(p) = 0 \/ Occurrences(p, s) # {}

\* Position of the first token c in s at or after position from; 0 if none.
Find(c, s, from) ==
    IF \E i \in from..Len(s) : s[i] = c
    THEN CHOOSE i \in from..Len(s) : s[i] = c /\ \A j \in from..(i - 1) : s[j] # c
    ELSE 0

IsSpace(c) == c \in {SP, NL}

\* str.strip()
RECURSIVE LStrip(_)
LStrip(s) == IF s # <<>> /\ IsSpace(Head(s)) THEN LStrip(Tail(s)) ELSE s
RECURSIVE RStrip(_)
RStrip(s) ==
    IF s # <<>> /\ IsSpace(s[Len(s)]) THEN RStrip(SubSeq(s, 1, Len(s) - 1)) ELSE s
Strip(s) == RStrip(LStrip(s))

Digits == {"0", "1", "2", "3"}
DigitVal(c) == CASE c = "0" -> 0 [] c = "1" -> 1 [] c = "2" -> 2 [] c = "3" -> 3

\* int() accepts a non-empty run of digits (of the tokens of this model).
IsInt(s) == s # <<>> /\ \A i \in DOMAIN s : s[i] \in Digits

RECURSIVE IntOf(_)
IntOf(s) == IF s = <<>> THEN 0
            ELSE 10 * IntOf(SubSeq(s, 1, Len(s) - 1)) + DigitVal(s[Len(s)])

\* str.split(c): the pieces between the occurrences of c.
RECURSIVE Split(_, _)
Split(s, c) ==
    LET k == Find(c, s, 1) IN
    IF k = 0 THEN <<s>>
    ELSE <<Slice(s, 1, k - 1)>> \o Split(Slice(s, k + 1, Len(s)), c)

\* All sequences over S of length at most n.
RECURSIVE SeqsUpTo(_, _)
SeqsUpTo(S, n) ==
    IF n = 0 THEN {<<>>}
    ELSE LET R == SeqsUpTo(S, n - 1) IN
         R \cup {Append(r, x) : r \in {q \in R : Len(q) = n - 1}, x \in S}

----------------------------------------------------------------------------
(* release_notes.py: BranchType and the parse loop's body. *)

\* class BranchType(tuple, Enum): each member's tuple of aliases.
BranchType == [ FEATURE |-> <<"feature">>,
                MOD     |-> <<"mod", "modification", "refactor">>,
                BUGFIX  |-> <<"bugfix", "bugfixes", "bug", "fix", "hotfix">>,
                OTHER_  |-> <<>> ]   \* OTHER (a reserved word here)

\* `pref in cls.X`: the string pref is one of the aliases of the tuple.
IsAlias(pref, aliases) == Len(pref) = 1 /\ pref[1] \in Range(aliases)

classify_branch_type(pref0) ==
    LET pref == Lower(pref0) IN
    IF IsAlias(pref, BranchType.FEATURE) THEN "FEATURE"
    ELSE IF IsAlias(pref, BranchType.MOD) THEN "MOD"
    ELSE IF IsAlias(pref, BranchType.BUGFIX) THEN "BUGFIX"
    ELSE "OTHER"

\* re.search(r"Merge branch '([^']+)'", line): group(1) of the leftmost match,
\* <<>> when there is none (a match's group is never empty).
MergeBranchSearch(line) ==
    LET starts == {i \in 1..(Len(line) - 3) :
                      /\ line[i] = MB
                      /\ line[i + 1] = "'"
                      /\ line[i + 2] # "'"
                      /\ Find("'", line, i + 2) # 0}
    IN IF starts = {} THEN <<>>
       ELSE LET i == CHOOSE k \in starts : \A j \in starts : k <= j
            IN Slice(line, i + 2, Find("'", line, i + 2) - 1)

\* full_branch.split('/', 1), for a full_branch that holds a '/'.
SplitFirstSlash(full_branch) ==
    LET k == Find("/", full_branch, 1)
    IN <<Slice(full_branch, 1, k - 1), Slice(full_branch, k + 1, Len(full_branch))>>

\* if ISSUE_PREFIX in task_key.lower(): continue
TypoGuard(issue_prefix, task_key) == Contains(issue_prefix, Lower(task_key))

\* base_key_pattern.match(task_key), for a task_key that starts with
\* ISSUE_PREFIX-: group(1), or <<>> when no digit follows the dash.  The issue
\* prefixes of this model hold no character that is special in a pattern.
BaseKeyMatch(issue_prefix, task_key) ==
    LET from == Len(issue_prefix) + 2
        stop == IF \E i \in from..Len(task_key) : task_key[i] \notin Digits
                THEN CHOOSE i \in from..Len(task_key) :
                        /\ task_key[i] \notin Digits
                        /\ \A j \in from..(i - 1) : task_key[j] \in Digits
                ELSE Len(task_key) + 1
    IN IF stop = from THEN <<>> ELSE Slice(task_key, 1, stop - 1)

\* One pass of the loop body over a line: the stage at which the line is
\* dropped ("continue"), or "accepted" with what the body computed.
Dropped(stage, full_branch, task_key) ==
    [stage |-> stage, full_branch |-> full_branch, task_key |-> task_key,
     base_key |-> <<>>, branch_type |-> "OTHER"]

ParseLine(issue_prefix, raw) ==
    LET line == Strip(raw)
        full_branch == MergeBranchSearch(line)
        parts == SplitFirstSlash(full_branch)
        prefix == parts[1]
        task_key == parts[2]
        base_key == BaseKeyMatch(issue_prefix, task_key)
    IN IF \/ line = <<>>
          \/ Contains(<<"refs/heads/develop">>, line)
          \/ Contains(<<"remote-tracking">>, line)
       THEN Dropped("skipped", <<>>, <<>>)
       ELSE IF full_branch = <<>> THEN Dropped("no_merge", <<>>, <<>>)
       ELSE IF "/" \notin Range(full_branch) THEN Dropped("no_slash", full_branch, <<>>)
       ELSE IF ~StartsWith(task_key, issue_prefix \o <<"-">>)
            THEN Dropped("other_prefix", full_branch, task_key)
       ELSE IF TypoGuard(issue_prefix, task_key)
            THEN Dropped("typo", full_branch, task_key)
       ELSE IF base_key = <<>> THEN Dropped("no_base_key", full_branch, task_key)
       ELSE [stage |-> "accepted", full_branch |-> full_branch, task_key |-> task_key,
             base_key |-> base_key, branch_type |-> classify_branch_type(prefix)]

TaskKeys(t) == {t[i].key : i \in DOMAIN t}

\* RecordTask without its test: tasks[base_key] = branch_type for every accepted
\* line, so the last classification stays.
RecordTaskLastWins(t, base_key, branch_type) ==
    IF base_key \in TaskKeys(t)
    THEN [i \in DOMAIN t |->
            IF t[i].key = base_key THEN [t[i] EXCEPT !.type = branch_type] ELSE t[i]]
    ELSE Append(t, [key |-> base_key, type |-> branch_type])

\* if base_key not in tasks: tasks[base_key] = branch_type
RecordTask(t, base_key, branch_type) ==
    IF base_key \in TaskKeys(t) THEN t
    ELSE Append(t, [key |-> base_key, type |-> branch_type])

----------------------------------------------------------------------------
(* release_notes.py: grouping and rendering. *)

\* ','.join(parts)
RECURSIVE JoinTokens(_, _)
JoinTokens(parts, sep) ==
    IF parts = <<>> THEN <<>>
    ELSE IF Len(parts) = 1 THEN parts[1]
    ELSE parts[1] \o <<sep>> \o JoinTokens(Tail(parts), sep)

\* list_to_str(ids, quot)
list_to_str(ids, quot) ==
    JoinTokens([i \in DOMAIN ids |-> <<quot, ids[i], quot>>], ",")

feature_types == list_to_str(BranchType.FEATURE, BQ)
mod_types == list_to_str(BranchType.MOD, BQ)
bugfix_types == list_to_str(BranchType.BUGFIX, BQ)
other_types == list_to_str(BranchType.OTHER_, BQ)

\* The dict key make_group files a branch type under (the Russian labels
\* transliterated; the last one has no closing parenthesis, as in the code).
GroupName(b_type) ==
    IF b_type = "FEATURE" THEN <<"Funktsionalnost (">> \o feature_types \o <<")">>
    ELSE IF b_type = "MOD" THEN <<"Dorabotki / Modifikatsii (">> \o mod_types \o <<")">>
    ELSE IF b_type = "BUGFIX" THEN <<"Bagfiksy (">> \o bugfix_types \o <<")">>
    ELSE <<"Prochee (">> \o other_types

\* jira_groups[name].append(k) on a defaultdict(list): a new name is added
\* after the names already there.
GroupAppend(gs, name, k) ==
    IF \E i \in DOMAIN gs : gs[i].name = name
    THEN [i \in DOMAIN gs |->
            IF gs[i].name = name THEN [gs[i] EXCEPT !.keys = Append(@, k)] ELSE gs[i]]
    ELSE Append(gs, [name |-> name, keys |-> <<k>>])

RECURSIVE GroupItems(_, _)
GroupItems(items, gs) ==
    IF items = <<>> THEN gs
    ELSE GroupItems(Tail(items), GroupAppend(gs, GroupName(Head(items).type), Head(items).key))

\* make_group(jira_tasks): the items of the returned dict, in its iteration order.
make_group(jira_tasks) == GroupItems(jira_tasks, <<>>)

\* key=lambda x: int(x.split('-')[1]): SortKeyFails when it raises.
SortKeyFails(x) == LET parts == Split(x, "-") IN Len(parts) < 2 \/ ~IsInt(parts[2])
SortKey(x) == IntOf(Split(x, "-")[2])

\* sorted(keys, key=...): stable, ascending.
RECURSIVE InsertSorted(_, _)
InsertSorted(sorted, x) ==
    IF sorted = <<>> THEN <<x>>
    ELSE IF SortKey(Head(sorted)) <= SortKey(x)
         THEN <<Head(sorted)>> \o InsertSorted(Tail(sorted), x)
         ELSE <<x>> \o sorted

RECURSIVE SortedKeys(_)
SortedKeys(keys) ==
    IF keys = <<>> THEN <<>>
    ELSE InsertSorted(SortedKeys(SubSeq(keys, 1, Len(keys) - 1)), keys[Len(keys)])

\* f"  + {title} (zadacha {key})[{status}]"
BulletLine(key, data) ==
    LET title == IF data[key] = "Issue" THEN "summary" ELSE "[Nazvanie ne naydeno]"
        status == IF data[key] = "Issue" THEN "status" ELSE "[Todo]"
    IN <<"  + ", title, " (zadacha ">> \o key \o <<")[", status, "]">>

GroupLine(name) == <<"- **">> \o name \o <<":**">>

\* The lines before the loop over the groups.
HeadLines(release, develop) ==
    << <<"### Release Notes">>, <<>>,
       <<"Release Version: ", release>>, <<"Develop Version: ", develop>>,
       <<"Data reliza: ", "date">>, <<>>,
       <<"### Osnovnye izmeneniya:">>, <<>> >>

\* The loop over groups.keys(): the lines it appends; it stops where the sort
\* key of a key raises.
RECURSIVE RenderGroups(_, _)
RenderGroups(gs, data) ==
    IF gs = <<>> THEN <<>>
    ELSE LET g == Head(gs) IN
         IF g.keys = <<>> THEN RenderGroups(Tail(gs), data)
         ELSE IF \E j \in DOMAIN g.keys : SortKeyFails(g.keys[j])
              THEN <<GroupLine(g.name)>>
              ELSE LET sk == SortedKeys(g.keys) IN
                   <<GroupLine(g.name)>>
                   \o [j \in DOMAIN sk |-> BulletLine(sk[j], data)]
                   \o << <<>> >>
                   \o RenderGroups(Tail(gs), data)

RenderRaises(gs) ==
    \E i \in DOMAIN gs : \E j \in DOMAIN gs[i].keys : SortKeyFails(gs[i].keys[j])

FootLine == <<"#release #backend #patch">>

\* "\n".join(lines)
JoinLines(lines) == JoinTokens(lines, NL)

----------------------------------------------------------------------------
(* release_notes.py: the inputs of a run. *)

\* What os.getenv gives for a required variable: unset, empty, or a value.
EnvValues == {"None", "", "set"}

\* The issue prefixes a run may be configured with.
IssuePrefixes == { <<"W">>, <<"w">>, <<"W", "-", "D">> }

\* "<hash> Merge branch '<type>/<task key>'"
MergeLine(type, task_key) == <<"h", MB, "'", type, "/">> \o task_key \o <<"'">>

BranchWords == {"feature", "Hotfix", "chore"}
CoreKeys == { <<"W", "-", "2">>, <<"W", "-", "1", "0">> }
OddKeys == { <<"W", "-", "D", "-", "3">>, <<"W", "-", "2", "/", "x">>,
             <<"W", "-", "2", "-", "W">>, <<"w", "-", "2">>,
             <<"W", "-", "x">>, <<"Q", "-", "2">> }

\* The lines merges.txt may hold.
LineSet ==
    {MergeLine(t, k) : t \in BranchWords, k \in CoreKeys}
    \cup {MergeLine("feature", k) : k \in OddKeys}
    \cup { <<SP>>,
           <<"h", MB, "develop">>,
           <<"h", MB, "'", "W", "-", "2", "'">>,
           MergeLine("feature", <<"W", "-", "3">>) \o <<"refs/heads/develop">>,
           MergeLine("feature", <<"W", "-", "3">>) \o <<"remote-tracking">>,
           <<SP>> \o MergeLine("mod", <<"W", "-", "2", "-", "v">>) \o <<SP>> }

MergeFiles == SeqsUpTo(LineSet, MaxLines)

NoFile == [exists |-> FALSE, text |-> <<>>]
StaleNotes == [exists |-> TRUE, text |-> <<"stale">>]

----------------------------------------------------------------------------
(* release_notes.py: the run, statement by statement. *)

BInit ==
    /\ pc = "config"
    /\ JIRA_URL \in EnvValues
    /\ JIRA_API_TOKEN \in EnvValues
    /\ RELEASE_VERSION = "None"
    /\ DEVELOP_VERSION = "None"
    /\ ISSUE_PREFIX = <<>>
    /\ prompts = <<>>
    /\ merges_read = FALSE
    /\ merge_lines = <<>>
    /\ idx = 0
    /\ tasks = <<>>
    /\ fate = <<>>
    /\ tracker_calls = 0
    /\ issue_data = <<>>
    /\ groups = <<>>
    /\ output_lines = <<>>
    /\ prior_notes \in {NoFile, StaleNotes}
    /\ release_notes_md = prior_notes
    /\ writes = 0
    /\ exit_code = "running"

\* The Builder is not running.
BIdle ==
    /\ pc = "idle"
    /\ JIRA_URL = "None"
    /\ JIRA_API_TOKEN = "None"
    /\ RELEASE_VERSION = "None"
    /\ DEVELOP_VERSION = "None"
    /\ ISSUE_PREFIX = <<>>
    /\ prompts = <<>>
    /\ merges_read = FALSE
    /\ merge_lines = <<>>
    /\ idx = 0
    /\ tasks = <<>>
    /\ fate = <<>>
    /\ tracker_calls = 0
    /\ issue_data = <<>>
    /\ groups = <<>>
    /\ output_lines = <<>>
    /\ prior_notes = NoFile
    /\ release_notes_md = NoFile
    /\ writes = 0
    /\ exit_code = "running"

\* get_config(): a version given by neither the flag nor the environment is
\* asked for with input().
GetConfig ==
    /\ pc = "config"
    /\ \E release \in {"None", "1.2.0"}, develop \in {"None", "1.3.0"},
          prefix \in IssuePrefixes :
          /\ prompts' = prompts
                \o (IF release = "None" THEN <<"Release Version: ">> ELSE <<>>)
                \o (IF develop = "None" THEN <<"Develop Version: ">> ELSE <<>>)
          /\ RELEASE_VERSION' = (IF release = "None" THEN "typed" ELSE release)
          /\ DEVELOP_VERSION' = (IF develop = "None" THEN "typed" ELSE develop)
          /\ ISSUE_PREFIX' = prefix
    /\ pc' = "env_check"
    /\ UNCHANGED <<JIRA_URL, JIRA_API_TOKEN, merges_read, merge_lines, idx, tasks,
                   fate, tracker_calls, issue_data, groups, output_lines,
                   prior_notes, release_notes_md, writes, exit_code>>

\* not all([JIRA_URL, JIRA_API_TOKEN]): None and "" are both false.
EnvMissing == JIRA_URL \in {"None", ""} \/ JIRA_API_TOKEN \in {"None", ""}

\* if not all([JIRA_URL, JIRA_API_TOKEN]): raise EnvironmentError(...)
CheckEnv ==
    /\ pc = "env_check"
    /\ IF EnvMissing
       THEN pc' = "aborted_env" /\ exit_code' = "1"
       ELSE pc' = "read" /\ UNCHANGED exit_code
    /\ UNCHANGED <<JIRA_URL, JIRA_API_TOKEN, RELEASE_VERSION, DEVELOP_VERSION,
                   ISSUE_PREFIX, prompts, merges_read, merge_lines, idx, tasks,
                   fate, tracker_calls, issue_data, groups, output_lines,
                   prior_notes, release_notes_md, writes>>

\* with open('merges.txt') as f: merge_lines = f.read().splitlines()
ReadMerges ==
    /\ pc = "read"
    /\ merges_read' = TRUE
    /\ \E content \in MergeFiles : merge_lines' = content
    /\ pc' = "parse"
    /\ UNCHANGED <<JIRA_URL, JIRA_API_TOKEN, RELEASE_VERSION, DEVELOP_VERSION,
                   ISSUE_PREFIX, prompts, idx, tasks, fate, tracker_calls,
                   issue_data, groups, output_lines, prior_notes,
                   release_notes_md, writes, exit_code>>

\* open('merges.txt') raises FileNotFoundError, which nothing catches.
ReadMergesMissing ==
    /\ pc = "read"
    /\ merges_read' = TRUE
    /\ pc' = "crashed_no_input"
    /\ exit_code' = "1"
    /\ UNCHANGED <<JIRA_URL, JIRA_API_TOKEN, RELEASE_VERSION, DEVELOP_VERSION,
                   ISSUE_PREFIX, prompts, merge_lines, idx, tasks, fate,
                   tracker_calls, issue_data, groups, output_lines, prior_notes,
                   release_notes_md, writes>>

\* One iteration of `for line in merge_lines`.
ParseStep ==
    /\ pc = "parse"
    /\ idx < Len(merge_lines)
    /\ LET r == ParseLine(ISSUE_PREFIX, merge_lines[idx + 1]) IN
          /\ fate' = Append(fate, r)
          /\ tasks' = IF r.stage = "accepted"
                      THEN RecordTask(tasks, r.base_key, r.branch_type)
                      ELSE tasks
    /\ idx' = idx + 1
    /\ UNCHANGED <<pc, JIRA_URL, JIRA_API_TOKEN, RELEASE_VERSION, DEVELOP_VERSION,
                   ISSUE_PREFIX, prompts, merges_read, merge_lines, tracker_calls,
                   issue_data, groups, output_lines, prior_notes,
                   release_notes_md, writes, exit_code>>

ParseOver == pc = "parse" /\ idx = Len(merge_lines)

\* NoTasksExit without its exit(): the run goes on to the grouping.
NoTasksFallsThrough ==
    /\ ParseOver
    /\ tasks = <<>>
    /\ pc' = "group"
    /\ UNCHANGED <<JIRA_URL, JIRA_API_TOKEN, RELEASE_VERSION, DEVELOP_VERSION,
                   ISSUE_PREFIX, prompts, merges_read, merge_lines, idx, tasks,
                   fate, tracker_calls, issue_data, groups, output_lines,
                   prior_notes, release_notes_md, writes, exit_code>>

\* if not base_keys: print(...); exit()
NoTasksExit ==
    /\ ParseOver
    /\ tasks = <<>>
    /\ pc' = "exit_empty"
    /\ exit_code' = "0"
    /\ UNCHANGED <<JIRA_URL, JIRA_API_TOKEN, RELEASE_VERSION, DEVELOP_VERSION,
                   ISSUE_PREFIX, prompts, merges_read, merge_lines, idx, tasks,
                   fate, tracker_calls, issue_data, groups, output_lines,
                   prior_notes, release_notes_md, writes>>

\* jira_api = JIRA(...) raises (it is outside the try): nothing catches it.
TrackerConnectFails ==
    /\ ParseOver
    /\ tasks # <<>>
    /\ tracker_calls' = tracker_calls + 1
    /\ pc' = "crashed_connect"
    /\ exit_code' = "1"
    /\ UNCHANGED <<JIRA_URL, JIRA_API_TOKEN, RELEASE_VERSION, DEVELOP_VERSION,
                   ISSUE_PREFIX, prompts, merges_read, merge_lines, idx, tasks,
                   fate, issue_data, groups, output_lines, prior_notes,
                   release_notes_md, writes>>

\* search_issues raises: except Exception: print(...); exit(1)
TrackerQueryFails ==
    /\ ParseOver
    /\ tasks # <<>>
    /\ tracker_calls' = tracker_calls + 1
    /\ pc' = "exit_query_failed"
    /\ exit_code' = "1"
    /\ UNCHANGED <<JIRA_URL, JIRA_API_TOKEN, RELEASE_VERSION, DEVELOP_VERSION,
                   ISSUE_PREFIX, prompts, merges_read, merge_lines, idx, tasks,
                   fate, issue_data, groups, output_lines, prior_notes,
                   release_notes_md, writes>>

\* search_issues returns the issues the tracker knows; the other keys get None.
TrackerQueryOk ==
    /\ ParseOver
    /\ tasks # <<>>
    /\ tracker_calls' = tracker_calls + 1
    /\ \E found \in SUBSET TaskKeys(tasks) :
          issue_data' = [k \in TaskKeys(tasks) |-> IF k \in found THEN "Issue" ELSE "None"]
    /\ pc' = "group"
    /\ UNCHANGED <<JIRA_URL, JIRA_API_TOKEN, RELEASE_VERSION, DEVELOP_VERSION,
                   ISSUE_PREFIX, prompts, merges_read, merge_lines, idx, tasks,
                   fate, groups, output_lines, prior_notes, release_notes_md,
                   writes, exit_code>>

\* groups = make_group(tasks)
Group ==
    /\ pc = "group"
    /\ groups' = make_group(tasks)
    /\ pc' = "render"
    /\ UNCHANGED <<JIRA_URL, JIRA_API_TOKEN, RELEASE_VERSION, DEVELOP_VERSION,
                   ISSUE_PREFIX, prompts, merges_read, merge_lines, idx, tasks,
                   fate, tracker_calls, issue_data, output_lines, prior_notes,
                   release_notes_md, writes, exit_code>>

\* output_lines = [...] up to the footer; a ValueError of int() is not caught.
Render ==
    /\ pc = "render"
    /\ IF RenderRaises(groups)
       THEN /\ output_lines' = HeadLines(RELEASE_VERSION, DEVELOP_VERSION)
                                  \o RenderGroups(groups, issue_data)
            /\ pc' = "crashed_render"
            /\ exit_code' = "1"
       ELSE /\ output_lines' = HeadLines(RELEASE_VERSION, DEVELOP_VERSION)
                                  \o RenderGroups(groups, issue_data)
                                  \o <<FootLine>>
            /\ pc' = "write"
            /\ UNCHANGED exit_code
    /\ UNCHANGED <<JIRA_URL, JIRA_API_TOKEN, RELEASE_VERSION, DEVELOP_VERSION,
                   ISSUE_PREFIX, prompts, merges_read, merge_lines, idx, tasks,
                   fate, tracker_calls, issue_data, groups, prior_notes,
                   release_notes_md, writes>>

\* with open("release_notes.md", "w") as f: f.write("\n".join(output_lines))
WriteNotes ==
    /\ pc = "write"
    /\ release_notes_md' = [exists |-> TRUE, text |-> JoinLines(output_lines)]
    /\ writes' = writes + 1
    /\ pc' = "done"
    /\ exit_code' = "0"
    /\ UNCHANGED <<JIRA_URL, JIRA_API_TOKEN, RELEASE_VERSION, DEVELOP_VERSION,
                   ISSUE_PREFIX, prompts, merges_read, merge_lines, idx, tasks,
                   fate, tracker_calls, issue_data, groups, output_lines,
                   prior_notes>>

----------------------------------------------------------------------------
(* extract_webdev_merges.py *)

\* One token of the prefix, as the pattern it is inside re.compile(...,
\* re.IGNORECASE): '.' matches any character but a newline, a letter matches
\* itself in either case.
PrefixTokMatches(p, c) == IF p = "." THEN c # NL ELSE LowerTok(p) = LowerTok(c)

\* re.compile(rf"Merge branch '([^']*/{prefix}-[^']*)'", re.IGNORECASE).search(line)
PrefixPatternSearch(line, prefix) ==
    \E i \in DOMAIN line, j \in DOMAIN line, k \in DOMAIN line :
        LET dash == j + Len(prefix) + 1 IN
        /\ LowerTok(line[i]) = mb
        /\ i + 1 <= Len(line) /\ line[i + 1] = "'"
        /\ j >= i + 2 /\ line[j] = "/"
        /\ \A t \in (i + 2)..(j - 1) : line[t] # "'"
        /\ dash <= Len(line)
        /\ \A t \in 1..Len(prefix) : PrefixTokMatches(prefix[t], line[j + t])
        /\ line[dash] = "-"
        /\ k > dash /\ line[k] = "'"
        /\ \A t \in (dash + 1)..(k - 1) : line[t] # "'"

\* re.compile(rf"Merge branch ", re.IGNORECASE).search(line)
MergeBranchWordsSearch(line) == \E i \in DOMAIN line : LowerTok(line[i]) = mb

\* extract_lines with a prefix pattern that lost its "Merge branch '" part: it
\* looks for /{prefix}- anywhere in the line.
extract_lines_unanchored(lines, prefix) ==
    IF prefix # <<>>
    THEN SelectSeq(lines, LAMBDA line :
            \E j \in DOMAIN line :
                /\ line[j] = "/"
                /\ j + Len(prefix) + 1 <= Len(line)
                /\ \A t \in 1..Len(prefix) : PrefixTokMatches(prefix[t], line[j + t])
                /\ line[j + Len(prefix) + 1] = "-")
    ELSE SelectSeq(lines, LAMBDA line : MergeBranchWordsSearch(line))

\* extract_lines(lines, prefix)
extract_lines(lines, prefix) ==
    IF prefix # <<>>
    THEN SelectSeq(lines, LAMBDA line : PrefixPatternSearch(line, prefix))
    ELSE SelectSeq(lines, LAMBDA line : MergeBranchWordsSearch(line))

\* str.splitlines(): the lines without their terminators.
RECURSIVE SplitLines(_)
SplitLines(text) ==
    IF text = <<>> THEN <<>>
    ELSE LET k == Find(NL, text, 1) IN
         IF k = 0 THEN <<text>>
         ELSE <<Slice(text, 1, k - 1)>> \o SplitLines(Slice(text, k + 1, Len(text)))

\* f.readlines(): the lines, each with its terminator.
RECURSIVE ReadLines(_)
ReadLines(text) ==
    IF text = <<>> THEN <<>>
    ELSE LET k == Find(NL, text, 1) IN
         IF k = 0 THEN <<text>>
         ELSE <<Slice(text, 1, k)>> \o ReadLines(Slice(text, k + 1, Len(text)))

\* The merge-commit summaries a repository's log may hold.
XLineSet ==
    { <<"h", MB, "'", "f", "/", "P", "-", "1", "'">>,
      <<"h", mb, "'", "f", "/", "p", "-", "2", "'">>,
      <<"h", MB, "'", "f", "/", "Q", "-", "1", "'">>,
      <<"h", MB, "d">>,
      <<"h", MB, "'", "P", "-", "1", "'">>,
      <<"h", MB, "'", "f", "/", "P", "-", "1">>,
      <<"f", "/", "P", "-", "1", "'">>,
      <<"h", "x">> }

\* What --prefix may be: empty, an issue prefix, or a string that holds '.'.
XPrefixes == { <<>>, <<"P">>, <<".">> }

\* --from-file: not given, a captured log, or the Extractor's own output.
XFromFiles == {"None", "git.log", "merges.txt"}

\* git prints each summary followed by a newline.
GitOutput(lines) == IF lines = <<>> THEN <<>> ELSE JoinLines(lines) \o <<NL>>

FileOf(text) == [exists |-> TRUE, text |-> text]

NoArgs == [prefix |-> <<>>, from_file |-> "None", output |-> "merges.txt"]
NoRun == [written |-> FALSE, args |-> NoArgs, lines |-> <<>>]

\* The repository's log; git.log is that log captured to a file (with or
\* without the final newline) or does not exist; merges.txt does not exist.
XInit ==
    /\ xpc = "idle"
    /\ xargs = NoArgs
    /\ \E log \in SeqsUpTo(XLineSet, MaxLogLines) :
          /\ xgit = GitOutput(log)
          /\ xfiles \in { [f \in {"git.log", "merges.txt"} |-> NoFile],
                          [f \in {"git.log", "merges.txt"} |->
                              IF f = "git.log" THEN FileOf(GitOutput(log)) ELSE NoFile],
                          [f \in {"git.log", "merges.txt"} |->
                              IF f = "git.log" THEN FileOf(JoinLines(log)) ELSE NoFile] }
    /\ xlines = <<>>
    /\ xsource = <<>>
    /\ xprev = NoRun

\* The Extractor is not running.
XIdle ==
    /\ xpc = "idle"
    /\ xargs = NoArgs
    /\ xfiles = [f \in {"git.log", "merges.txt"} |-> NoFile]
    /\ xgit = <<>>
    /\ xlines = <<>>
    /\ xsource = <<>>
    /\ xprev = NoRun

XStopped == xpc \in {"idle", "done", "crashed_no_input", "exit_git_failed"}

\* args = parser.parse_args(); output = args.output or 'merges.txt'
XStart ==
    /\ XStopped
    /\ \E prefix \in XPrefixes, from_file \in XFromFiles :
          xargs' = [prefix |-> prefix, from_file |-> from_file, output |-> "merges.txt"]
    /\ xlines' = <<>>
    /\ xsource' = <<>>
    /\ xpc' = "read"
    /\ UNCHANGED <<xfiles, xgit, xprev>>

\* with open(args.from_file) as f: lines = f.readlines()
XReadFile ==
    /\ xpc = "read"
    /\ xargs.from_file # "None"
    /\ xfiles[xargs.from_file].exists
    /\ xlines' = ReadLines(xfiles[xargs.from_file].text)
    /\ xpc' = "extract"
    /\ UNCHANGED <<xargs, xfiles, xgit, xsource, xprev>>

\* open(args.from_file) raises FileNotFoundError, which nothing catches.
XReadFileMissing ==
    /\ xpc = "read"
    /\ xargs.from_file # "None"
    /\ ~xfiles[xargs.from_file].exists
    /\ xpc' = "crashed_no_input"
    /\ UNCHANGED <<xargs, xfiles, xgit, xlines, xsource, xprev>>

\* lines = get_git_merge_commits(...): result.stdout.splitlines()
XReadGit ==
    /\ xpc = "read"
    /\ xargs.from_file = "None"
    /\ xlines' = SplitLines(xgit)
    /\ xpc' = "extract"
    /\ UNCHANGED <<xargs, xfiles, xgit, xsource, xprev>>

\* git fails or is not installed: sys.exit(1)
XGitFails ==
    /\ xpc = "read"
    /\ xargs.from_file = "None"
    /\ xpc' = "exit_git_failed"
    /\ UNCHANGED <<xargs, xfiles, xgit, xlines, xsource, xprev>>

\* lines = extract_lines(lines, args.prefix)
XExtract ==
    /\ xpc = "extract"
    /\ xsource' = xlines
    /\ xlines' = extract_lines(xlines, xargs.prefix)
    /\ xpc' = "write"
    /\ UNCHANGED <<xargs, xfiles, xgit, xprev>>

\* with open(output, 'w') as f: f.write("\n".join(lines))
XWrite ==
    /\ xpc = "write"
    /\ xfiles' = [xfiles EXCEPT ![xargs.output] = FileOf(JoinLines(xlines))]
    /\ xprev' = [written |-> TRUE, args |-> xargs, lines |-> xlines]
    /\ xpc' = "done"
    /\ UNCHANGED <<xargs, xgit, xlines, xsource>>

----------------------------------------------------------------------------
(* The specifications. *)

Init == BInit /\ XIdle

Next ==
    \/ GetConfig /\ UNCHANGED xvars
    \/ CheckEnv /\ UNCHANGED xvars
    \/ ReadMerges /\ UNCHANGED xvars
    \/ ReadMergesMissing /\ UNCHANGED xvars
    \/ ParseStep /\ UNCHANGED xvars
    \/ NoTasksExit /\ UNCHANGED xvars
    \/ TrackerConnectFails /\ UNCHANGED xvars
    \/ TrackerQueryFails /\ UNCHANGED xvars
    \/ TrackerQueryOk /\ UNCHANGED xvars
    \/ Group /\ UNCHANGED xvars
    \/ Render /\ UNCHANGED xvars
    \/ WriteNotes /\ UNCHANGED xvars

\* The Release Note Builder.
Spec == Init /\ [][Next]_vars

InitExtract == XInit /\ BIdle

NextExtract ==
    \/ XStart /\ UNCHANGED bvars
    \/ XReadFile /\ UNCHANGED bvars
    \/ XReadFileMissing /\ UNCHANGED bvars
    \/ XReadGit /\ UNCHANGED bvars
    \/ XGitFails /\ UNCHANGED bvars
    \/ XExtract /\ UNCHANGED bvars
    \/ XWrite /\ UNCHANGED bvars

\* The Merge Extractor, run any number of times.
SpecExtract == InitExtract /\ [][NextExtract]_vars

----------------------------------------------------------------------------
(* Reading a rendered document. *)

\* The lines of release_notes.md.
DocLines == Split(release_notes_md.text, NL)

IsBullet(l) == l # <<>> /\ l[1] = "  + "
IsGroupLine(l) == l # <<>> /\ l[1] = "- **"

\* The key a bullet names: what stands between " (zadacha " and ")[".
BulletKey(l) == Slice(l, 4, Find(")[", l, 4) - 1)

\* The group name of a group header line.
GroupLineName(l) == Slice(l, 2, Len(l) - 1)

Bullets(doc) == {i \in DOMAIN doc : IsBullet(doc[i])}
GroupLines(doc) == {i \in DOMAIN doc : IsGroupLine(doc[i])}

\* The header line a bullet stands under.
HeaderOf(doc, i) ==
    CHOOSE g \in GroupLines(doc) :
        g < i /\ \A h \in GroupLines(doc) : h < i => h <= g

\* The lines the parse loop accepted (reached the classification).
Accepted == {i \in DOMAIN fate : fate[i].stage = "accepted"}

\* The first accepted line that resolved to the key.
FirstAccepted(key) ==
    CHOOSE i \in Accepted :
        /\ fate[i].base_key = key
        /\ \A j \in Accepted : fate[j].base_key = key => i <= j

\* The digits of a key of the shape <ISSUE_PREFIX>-<digits>.
KeyDigits(key) == Slice(key, Len(ISSUE_PREFIX) + 2, Len(key))
HasKeyShape(key) == StartsWith(key, ISSUE_PREFIX \o <<"-">>) /\ IsInt(KeyDigits(key))

\* The group names in the order of the definitions.
GroupOrder == <<GroupName("FEATURE"), GroupName("MOD"), GroupName("BUGFIX"),
                GroupName("OTHER")>>
GroupRank(name) == CHOOSE r \in DOMAIN GroupOrder : GroupOrder[r] = name

----------------------------------------------------------------------------
(* The claims about the Release Note Builder (Spec). *)

\* C1: every issue key of the written document stands in exactly one bullet, and
\* that bullet is under the group of the branch type of the first accepted line
\* that resolved to the key; a later line with the same key and another type
\* changes nothing.
C1_FirstClassificationWins ==
    pc = "done" =>
        LET doc == DocLines IN
        /\ \A i, j \in Bullets(doc) :
              BulletKey(doc[i]) = BulletKey(doc[j]) => i = j
        /\ \A i \in Bullets(doc) :
              /\ \E a \in Accepted : fate[a].base_key = BulletKey(doc[i])
              /\ GroupLineName(doc[HeaderOf(doc, i)])
                    = GroupName(fate[FirstAccepted(BulletKey(doc[i]))].branch_type)

\* A document was written from two accepted lines of the same key and of
\* different branch types.
C1_Witness ==
    /\ pc = "done"
    /\ \E i, j \in Accepted :
          /\ i < j
          /\ fate[i].base_key = fate[j].base_key
          /\ fate[i].branch_type # fate[j].branch_type

\* C4: release_notes.md is written only after at least one base key was parsed
\* and the tracker answered the query; with no base key the run ends with exit
\* status 0, the file as it was and the tracker never contacted; when the query
\* fails the run ends with a non-zero status and the file as it was.
C4_WriteOnlyOnSuccess ==
    /\ writes > 0 =>
          /\ pc = "done"
          /\ tasks # <<>>
          /\ tracker_calls = 1
          /\ DOMAIN issue_data = TaskKeys(tasks)
    /\ writes = 0 => release_notes_md = prior_notes
    /\ pc \in {"group", "render", "write", "done", "crashed_render"} => tasks # <<>>
    /\ pc = "exit_empty" =>
          /\ tasks = <<>>
          /\ exit_code = "0"
          /\ writes = 0
          /\ tracker_calls = 0
    /\ pc \in {"exit_query_failed", "crashed_connect"} =>
          /\ exit_code = "1"
          /\ writes = 0
          /\ release_notes_md = prior_notes

\* The query failed with an earlier run's release_notes.md on disk.
C4_Witness ==
    /\ pc = "exit_query_failed"
    /\ prior_notes = StaleNotes
    /\ release_notes_md = StaleNotes
    /\ tracker_calls = 1

\* C5: when the tracker URL or the API token is missing, the run aborts before
\* any prompt, any read of merges.txt, any tracker call and any file write.
C5_AbortBeforeAnyWork ==
    pc = "aborted_env" =>
        /\ prompts = <<>>
        /\ ~merges_read
        /\ tracker_calls = 0
        /\ writes = 0

\* C6: the written document lists its groups in the order Feature, Modification,
\* Bugfix, Other, whatever the order of the branch types among the merge lines.
C6_GroupDefinitionOrder ==
    pc = "done" =>
        LET doc == DocLines IN
        \A g, h \in GroupLines(doc) :
            g < h => GroupRank(GroupLineName(doc[g])) < GroupRank(GroupLineName(doc[h]))

\* C7: for every issue prefix, every key that reaches the rendering has the
\* shape <PREFIX>-<digits>, its sort key is the integer of the digits after the
\* prefix's dash, computing it never fails, and the bullets of a group ascend
\* by that integer.
C7_NumericSortKey ==
    /\ pc # "crashed_render"
    /\ \A g \in DOMAIN groups : \A j \in DOMAIN groups[g].keys :
          LET key == groups[g].keys[j] IN
          /\ HasKeyShape(key)
          /\ ~SortKeyFails(key)
          /\ SortKey(key) = IntOf(KeyDigits(key))
    /\ pc = "done" =>
          LET doc == DocLines IN
          \A i, j \in Bullets(doc) :
              (i < j /\ HeaderOf(doc, i) = HeaderOf(doc, j)) =>
                  IntOf(KeyDigits(BulletKey(doc[i]))) <= IntOf(KeyDigits(BulletKey(doc[j])))

\* C9: a task key that starts with <issue-prefix>- is rejected by the typo
\* guard exactly when its lower-case form contains the issue prefix more than
\* once; with the prefix only once it goes on to the base-key extraction.
C9_TypoGuardOnRepeatedPrefix ==
    \A i \in DOMAIN fate :
        fate[i].stage \in {"typo", "no_base_key", "accepted"} =>
            (fate[i].stage = "typo"
                <=> Cardinality(Occurrences(ISSUE_PREFIX, Lower(fate[i].task_key))) > 1)

\* C10: a line is accepted only if its quoted branch name holds exactly one
\* '/'; a branch name with no '/' or with more than one adds nothing to the
\* task registry.
C10_ExactlyOneSlash ==
    \A i \in Accepted : Cardinality(Occurrences(<<"/">>, fate[i].full_branch)) = 1

----------------------------------------------------------------------------
(* The claims about the Merge Extractor (SpecExtract). *)

\* The line contains, in either case, Merge branch '<path>': the words, a
\* quote, a non-empty path without a quote, a quote.
HasQuotedMerge(line) ==
    \E i \in 1..(Len(line) - 3) :
        /\ LowerTok(line[i]) = mb
        /\ line[i + 1] = "'"
        /\ line[i + 2] # "'"
        /\ Find("'", line, i + 2) # 0

\* The line contains, in either case, the words "Merge branch ".
MentionsMergeBranch(line) == mb \in Range(Lower(line))

\* The line contains, in either case, Merge branch '<anything>/P-<anything>'
\* with the characters of P themselves.
ContainsMergeOfPrefix(line, P) ==
    \E i \in 1..(Len(line) - 1) :
        /\ LowerTok(line[i]) = mb
        /\ line[i + 1] = "'"
        /\ LET close == Find("'", line, i + 2)
               path == Slice(line, i + 2, close - 1)
           IN /\ close # 0
              /\ Contains(<<"/">> \o Lower(P) \o <<"-">>, Lower(path))

\* C2: with a non-empty prefix P, extract_lines returns the lines of its input
\* that contain Merge branch '<anything>/P-<anything>' (in either case), in
\* their order, each as it was.
C2_ExtractFiltersByPrefix ==
    (xpc = "write" /\ xargs.prefix # <<>>) =>
        xlines = SelectSeq(xsource, LAMBDA l : ContainsMergeOfPrefix(l, xargs.prefix))

\* C3 as stated: a line that does not match Merge branch '<path>' is excluded,
\* whatever the prefix, the empty one included.
C3_UnquotedAlwaysExcluded ==
    xpc = "write" =>
        \A i \in DOMAIN xsource :
            ~HasQuotedMerge(xsource[i]) => xsource[i] \notin Range(xlines)

\* C3, amended: a line that does not match Merge branch '<path>' is excluded
\* when the prefix is not empty; with the empty prefix it is excluded unless it
\* contains the words "Merge branch ".
C3_UnquotedExcludedUnlessEmptyPrefix ==
    xpc = "write" =>
        \A i \in DOMAIN xsource :
            ~HasQuotedMerge(xsource[i]) =>
                (xsource[i] \in Range(xlines)
                    <=> (xargs.prefix = <<>> /\ MentionsMergeBranch(xsource[i])))

\* With the empty prefix, a line with the words but no quoted path was kept
\* and another line was dropped.
C3_Witness ==
    /\ xpc = "write"
    /\ xargs.prefix = <<>>
    /\ \E i, j \in DOMAIN xsource :
          /\ ~HasQuotedMerge(xsource[i])
          /\ xsource[i] \in Range(xlines)
          /\ xsource[j] \notin Range(xlines)

\* C8: the lines a run wrote to its output file, read again with --from-file
\* and the empty prefix, give the same set of lines.
C8_RoundTrip ==
    (/\ xpc = "write"
     /\ xprev.written
     /\ xargs.from_file = xprev.args.output
     /\ xargs.prefix = <<>>) =>
        Range(xlines) = Range(xprev.lines)

====
